---- MODULE Spec2Model ----
(***************************************************************************)
(* State-machine model of the Erc721 contract of src/lib.rs: the ownership *)
(* ledger (token_owner, owned_tokens, owned_tokens_count, token_data,      *)
(* all_tokens) and the marketplace (prices, tokens_for_sale).              *)
(*                                                                         *)
(* Every message is one action.  The handlers are operators over a record  *)
(* of the storage fields; they return the storage as the handler leaves    *)
(* it, the Result it returns, the Transfer events it emits and the value   *)
(* transfers it makes.  A handler that returns Err after some writes       *)
(* returns the storage WITH those writes: lib.rs itself contains no        *)
(* rollback, and this is what the contract's own #[ink_lang::test] tests   *)
(* observe when they call the methods on the struct.                       *)
(*                                                                         *)
(* Option<T> is modelled as a sequence: <<>> is None, <<v>> is Some(v).    *)
(* A Mapping<K,V> is a function from K to Option<V>.                       *)
(***************************************************************************)
EXTENDS Integers, Sequences, FiniteSets, TLC

\* ---------------------------------------------------------------- bounds
MaxAll == 2         \* mint is not called once all_tokens has MaxAll entries
AskPrice == 1       \* the price every listing asks

\* ------------------------------------------------------------ data types
Null == "null"
Accounts == {Null, "alice", "bob"}
TokenIds == {1, 2}
Prices == {AskPrice}                \* the price argument of publish_for_sale
\* env().transferred_value() of buy_nft: below, at and above the price
Values == (AskPrice - 1)..(AskPrice + 1)
NftDatas == {"", "lol"}      \* NftData { poebat }: None and Some("lol")

None == <<>>
Some(v) == <<v>>
unwrap(o) == o[1]

Ok == "Ok"

\* --------------------------------------------------------------- storage
VARIABLES
    token_owner,          \* Mapping<TokenId, AccountId>
    owned_tokens,         \* Mapping<AccountId, Vec<TokenId>>
    owned_tokens_count,   \* Mapping<AccountId, u32>
    token_data,           \* Mapping<TokenId, NftData>
    all_tokens,           \* Vec<TokenId>
    prices,               \* Mapping<TokenId, Balance>
    tokens_for_sale,      \* Vec<TokenId>
    call,                 \* the name of the last message
    result,               \* what the last message returned
    emitted,              \* Transfer events emitted by the last message
    paid,                 \* env().transfer calls made by the last message
    lister,               \* history: caller of the publish_for_sale that
                          \* created the current price entry of each id
    published,            \* history: price of the latest successful
                          \* publish_for_sale of each id, None once a
                          \* remove_from_sale or buy_nft of it succeeded
    minted                \* history: metadata of the latest successful
                          \* mint of each id, None if it was never minted

ledger == <<token_owner, owned_tokens, owned_tokens_count, token_data,
            all_tokens, prices, tokens_for_sale>>

vars == <<token_owner, owned_tokens, owned_tokens_count, token_data,
          all_tokens, prices, tokens_for_sale, call, result, emitted, paid,
          lister, published, minted>>

Self ==
    [token_owner |-> token_owner,
     owned_tokens |-> owned_tokens,
     owned_tokens_count |-> owned_tokens_count,
     token_data |-> token_data,
     all_tokens |-> all_tokens,
     prices |-> prices,
     tokens_for_sale |-> tokens_for_sale]

\* ------------------------------------------------------- Vec primitives
\* Iterator::position: index of the first element equal to x, 0 for None
position(v, x) ==
    IF \E i \in 1..Len(v) : v[i] = x
    THEN CHOOSE i \in 1..Len(v) : v[i] = x /\ \A j \in 1..(i - 1) : v[j] # x
    ELSE 0

\* Vec::remove(index): excise one element, keep the order of the rest
remove(v, i) == [j \in 1..(Len(v) - 1) |-> IF j < i THEN v[j] ELSE v[j + 1]]

Elems(v) == {v[i] : i \in 1..Len(v)}
Occurrences(v, x) == Cardinality({i \in 1..Len(v) : v[i] = x})

\* a handler's outcome
Outcome(S, res, ev, pay) == [st |-> S, res |-> res, ev |-> ev, pay |-> pay]

Transfer(from, to, id) == [from |-> from, to |-> to, id |-> id]

\* ------------------------------------------------------ private helpers
exists(S, id) == S.token_owner[id] # None

owner_of(S, id) == S.token_owner[id]

\* is_owner_of that only rules out the null account
is_owner_of_any_account(S, from, id) ==
    from # Some(Null)

is_owner_of(S, from, id) ==
    from # Some(Null) /\ from = owner_of(S, id)

balance_of_or_zero(S, of) ==
    IF S.owned_tokens_count[of] = None THEN 0
    ELSE unwrap(S.owned_tokens_count[of])

balance_of(S, owner) == balance_of_or_zero(S, owner)

tokens_of_owner(S, owner) ==
    IF S.owned_tokens[owner] = None THEN <<>> ELSE unwrap(S.owned_tokens[owner])

\* add_token_to without its null-account check
add_token_to_no_null_check(S, to, id) ==
    IF S.token_owner[id] # None THEN Outcome(S, "TokenExists", <<>>, <<>>)
    ELSE
        LET count == IF S.owned_tokens_count[to] = None THEN 1
                     ELSE unwrap(S.owned_tokens_count[to]) + 1
            tokens == Append(tokens_of_owner(S, to), id)
        IN  Outcome([S EXCEPT !.owned_tokens_count[to] = Some(count),
                              !.owned_tokens[to] = Some(tokens),
                              !.token_owner[id] = Some(to)],
                    Ok, <<>>, <<>>)

\* Adds the token `id` to the `to` AccountId.  `c + 1` is u32 arithmetic; a
\* count is at most the number of token ids in use here, far below 2^32.
add_token_to(S, to, id) ==
    IF S.token_owner[id] # None THEN Outcome(S, "TokenExists", <<>>, <<>>)
    ELSE IF to = Null THEN Outcome(S, "NotAllowed", <<>>, <<>>)
    ELSE
        LET count == IF S.owned_tokens_count[to] = None THEN 1
                     ELSE unwrap(S.owned_tokens_count[to]) + 1
            tokens == Append(tokens_of_owner(S, to), id)
        IN  Outcome([S EXCEPT !.owned_tokens_count[to] = Some(count),
                              !.owned_tokens[to] = Some(tokens),
                              !.token_owner[id] = Some(to)],
                    Ok, <<>>, <<>>)

\* `c - 1` on a u32 count: with c = 0 the build either panics or wraps; that
\* case is reported as "Underflow" and CountNeverUnderflows shows that no
\* reachable call gets there.
dec(S, who) == unwrap(S.owned_tokens_count[who]) - 1

\* remove_token_from that forgets to write the decremented count back
remove_token_from_keeps_count(S, from, id) ==
    IF ~exists(S, id) THEN Outcome(S, "TokenNotFound", <<>>, <<>>)
    ELSE IF S.owned_tokens_count[from] = None
    THEN Outcome(S, "CannotFetchValue", <<>>, <<>>)
    ELSE IF S.owned_tokens[from] = None
    THEN Outcome(S, "CannotFetchValue", <<>>, <<>>)
    ELSE
        LET tokens == unwrap(S.owned_tokens[from])
            index == position(tokens, id)
        IN  IF index = 0
            THEN Outcome(S, "CannotFetchValue", <<>>, <<>>)
            ELSE Outcome([S EXCEPT
                             !.owned_tokens[from] =
                                 Some(remove(tokens, index)),
                             !.token_owner[id] = None],
                         Ok, <<>>, <<>>)

\* Removes token `id` from the owner.  Each `?` returns with the writes made
\* before it still in place.
remove_token_from(S, from, id) ==
    IF ~exists(S, id) THEN Outcome(S, "TokenNotFound", <<>>, <<>>)
    ELSE IF S.owned_tokens_count[from] = None
    THEN Outcome(S, "CannotFetchValue", <<>>, <<>>)
    ELSE IF dec(S, from) < 0 THEN Outcome(S, "Underflow", <<>>, <<>>)
    ELSE
        LET count == dec(S, from)
            S1 == [S EXCEPT !.owned_tokens_count[from] = Some(count)]
        IN  IF S1.owned_tokens[from] = None
            THEN Outcome(S1, "CannotFetchValue", <<>>, <<>>)
            ELSE
                LET tokens == unwrap(S1.owned_tokens[from])
                    index == position(tokens, id)
                IN  IF index = 0
                    THEN Outcome(S1, "CannotFetchValue", <<>>, <<>>)
                    ELSE Outcome([S1 EXCEPT
                                     !.owned_tokens[from] =
                                         Some(remove(tokens, index)),
                                     !.token_owner[id] = None],
                                 Ok, <<>>, <<>>)

\* transfer_token_from that emits no Transfer event
transfer_token_from_silent(S, from, to, id) ==
    IF ~exists(S, id) THEN Outcome(S, "TokenNotFound", <<>>, <<>>)
    ELSE IF ~is_owner_of(S, Some(from), id)
    THEN Outcome(S, "NotApproved", <<>>, <<>>)
    ELSE
        LET r1 == remove_token_from(S, from, id)
        IN  IF r1.res # Ok THEN r1
            ELSE add_token_to(r1.st, to, id)

\* Transfers token `id` `from` the sender to the `to` AccountId.
transfer_token_from(S, from, to, id) ==
    IF ~exists(S, id) THEN Outcome(S, "TokenNotFound", <<>>, <<>>)
    ELSE IF ~is_owner_of(S, Some(from), id)
    THEN Outcome(S, "NotApproved", <<>>, <<>>)
    ELSE
        LET r1 == remove_token_from(S, from, id)
        IN  IF r1.res # Ok THEN r1
            ELSE
                LET r2 == add_token_to(r1.st, to, id)
                IN  IF r2.res # Ok THEN r2
                    ELSE Outcome(r2.st, Ok, <<Transfer(from, to, id)>>, <<>>)

\* ------------------------------------------------------------- messages
transfer(S, caller, destination, id) ==
    transfer_token_from(S, caller, destination, id)

\* transfer_from without the ownership check on `from`
transfer_from_skips_owner_check(S, from, to, id) ==
    IF ~exists(S, id) THEN Outcome(S, "TokenNotFound", <<>>, <<>>)
    ELSE
        LET r1 == remove_token_from(S, from, id)
        IN  IF r1.res # Ok THEN r1
            ELSE
                LET r2 == add_token_to(r1.st, to, id)
                IN  IF r2.res # Ok THEN r2
                    ELSE Outcome(r2.st, Ok, <<Transfer(from, to, id)>>, <<>>)

transfer_from(S, from, to, id) ==
    transfer_token_from(S, from, to, id)

\* mint that keeps the metadata an earlier token of the same id left behind
mint_keeps_old_data(S, caller, id, data) ==
    LET r == add_token_to(S, caller, id)
    IN  IF r.res # Ok THEN r
        ELSE Outcome([r.st EXCEPT
                         !.token_data[id] =
                             IF @ = None THEN Some(data) ELSE @,
                         !.all_tokens = Append(@, id)],
                     Ok, <<Transfer(Null, caller, id)>>, <<>>)

\* mint that forgets to push the id to all_tokens
mint_skips_all_tokens(S, caller, id, data) ==
    LET r == add_token_to(S, caller, id)
    IN  IF r.res # Ok THEN r
        ELSE Outcome([r.st EXCEPT !.token_data[id] = Some(data)],
                     Ok, <<Transfer(Null, caller, id)>>, <<>>)

\* Creates a new token.
mint(S, caller, id, data) ==
    LET r == add_token_to(S, caller, id)
    IN  IF r.res # Ok THEN r
        ELSE Outcome([r.st EXCEPT !.token_data[id] = Some(data),
                                  !.all_tokens = Append(@, id)],
                     Ok, <<Transfer(Null, caller, id)>>, <<>>)

\* publish_for_sale that records the price but forgets the listing sequence
publish_for_sale_skips_push(S, caller, id, price) ==
    IF ~exists(S, id) THEN Outcome(S, "TokenNotFound", <<>>, <<>>)
    ELSE IF ~is_owner_of(S, Some(caller), id)
    THEN Outcome(S, "NotApproved", <<>>, <<>>)
    ELSE IF S.prices[id] # None
    THEN Outcome(S, "AlreadyForSale", <<>>, <<>>)
    ELSE Outcome([S EXCEPT !.prices[id] = Some(price)], Ok, <<>>, <<>>)

\* publish_for_sale without its AlreadyForSale check
publish_for_sale_relists(S, caller, id, price) ==
    IF ~exists(S, id) THEN Outcome(S, "TokenNotFound", <<>>, <<>>)
    ELSE IF ~is_owner_of(S, Some(caller), id)
    THEN Outcome(S, "NotApproved", <<>>, <<>>)
    ELSE Outcome([S EXCEPT !.tokens_for_sale = Append(@, id),
                           !.prices[id] = Some(price)],
                 Ok, <<>>, <<>>)

publish_for_sale(S, caller, id, price) ==
    IF ~exists(S, id) THEN Outcome(S, "TokenNotFound", <<>>, <<>>)
    ELSE IF ~is_owner_of(S, Some(caller), id)
    THEN Outcome(S, "NotApproved", <<>>, <<>>)
    ELSE IF S.prices[id] # None
    THEN Outcome(S, "AlreadyForSale", <<>>, <<>>)
    ELSE Outcome([S EXCEPT !.tokens_for_sale = Append(@, id),
                           !.prices[id] = Some(price)],
                 Ok, <<>>, <<>>)

ForSale(id, price) == [id |-> id, price |-> price]

RECURSIVE for_sale_of(_, _)
for_sale_of(S, v) ==
    IF v = <<>> THEN <<>>
    ELSE IF S.prices[Head(v)] # None
         THEN <<ForSale(Head(v), unwrap(S.prices[Head(v)]))>>
                  \o for_sale_of(S, Tail(v))
         ELSE for_sale_of(S, Tail(v))

get_tokens_for_sale(S) == for_sale_of(S, S.tokens_for_sale)

\* remove_from_sale that leaves the price entry behind
remove_from_sale_keeps_price(S, caller, id) ==
    IF ~exists(S, id) THEN Outcome(S, "TokenNotFound", <<>>, <<>>)
    ELSE IF ~is_owner_of(S, Some(caller), id)
    THEN Outcome(S, "NotApproved", <<>>, <<>>)
    ELSE IF S.prices[id] = None
    THEN Outcome(S, "NotForSale", <<>>, <<>>)
    ELSE
        LET index == position(S.tokens_for_sale, id)
        IN  IF index = 0 THEN Outcome(S, "CannotFetchValue", <<>>, <<>>)
            ELSE Outcome([S EXCEPT !.tokens_for_sale = remove(@, index)],
                         Ok, <<>>, <<>>)

\* remove_from_sale that drops the last listing instead of the one found
remove_from_sale_pops_last(S, caller, id) ==
    IF ~exists(S, id) THEN Outcome(S, "TokenNotFound", <<>>, <<>>)
    ELSE IF ~is_owner_of(S, Some(caller), id)
    THEN Outcome(S, "NotApproved", <<>>, <<>>)
    ELSE IF S.prices[id] = None
    THEN Outcome(S, "NotForSale", <<>>, <<>>)
    ELSE
        LET index == position(S.tokens_for_sale, id)
        IN  IF index = 0 THEN Outcome(S, "CannotFetchValue", <<>>, <<>>)
            ELSE Outcome([S EXCEPT
                             !.tokens_for_sale = remove(@, Len(@)),
                             !.prices[id] = None],
                         Ok, <<>>, <<>>)

remove_from_sale(S, caller, id) ==
    IF ~exists(S, id) THEN Outcome(S, "TokenNotFound", <<>>, <<>>)
    ELSE IF ~is_owner_of(S, Some(caller), id)
    THEN Outcome(S, "NotApproved", <<>>, <<>>)
    ELSE IF S.prices[id] = None
    THEN Outcome(S, "NotForSale", <<>>, <<>>)
    ELSE
        LET index == position(S.tokens_for_sale, id)
        IN  IF index = 0 THEN Outcome(S, "CannotFetchValue", <<>>, <<>>)
            ELSE Outcome([S EXCEPT
                             !.tokens_for_sale = remove(@, index),
                             !.prices[id] = None],
                         Ok, <<>>, <<>>)

\* buy_nft that forwards the whole attached value instead of the price
buy_nft_pays_attached(S, caller, id, transferred_value, transfer_ok) ==
    IF ~exists(S, id) THEN Outcome(S, "TokenNotFound", <<>>, <<>>)
    ELSE IF is_owner_of(S, Some(caller), id)
    THEN Outcome(S, "NotApproved", <<>>, <<>>)
    ELSE IF S.prices[id] = None
    THEN Outcome(S, "NotForSale", <<>>, <<>>)
    ELSE
        LET token_price == unwrap(S.prices[id])
            owner == IF owner_of(S, id) = None THEN Null
                     ELSE unwrap(owner_of(S, id))
            payment == [to |-> owner, value |-> transferred_value]
        IN  IF token_price > transferred_value
            THEN Outcome(S, "NotEnoughSent", <<>>, <<>>)
            ELSE IF ~transfer_ok
            THEN Outcome(S, "CannotMakeTransfer", <<>>, <<>>)
            ELSE
                LET r == transfer_token_from(S, owner, caller, id)
                IN  IF r.res # Ok
                    THEN Outcome(r.st, r.res, r.ev, <<payment>>)
                    ELSE
                        LET index == position(r.st.tokens_for_sale, id)
                        IN  IF index = 0
                            THEN Outcome(r.st, "CannotFetchValue", r.ev,
                                         <<payment>>)
                            ELSE Outcome([r.st EXCEPT
                                             !.tokens_for_sale =
                                                 remove(@, index),
                                             !.prices[id] = None],
                                         Ok, r.ev, <<payment>>)

\* buy_nft that does not look at what env().transfer returned
buy_nft_ignores_payment_error(S, caller, id, transferred_value, transfer_ok) ==
    IF ~exists(S, id) THEN Outcome(S, "TokenNotFound", <<>>, <<>>)
    ELSE IF is_owner_of(S, Some(caller), id)
    THEN Outcome(S, "NotApproved", <<>>, <<>>)
    ELSE IF S.prices[id] = None
    THEN Outcome(S, "NotForSale", <<>>, <<>>)
    ELSE
        LET token_price == unwrap(S.prices[id])
            owner == IF owner_of(S, id) = None THEN Null
                     ELSE unwrap(owner_of(S, id))
            payment == [to |-> owner, value |-> token_price]
        IN  IF token_price > transferred_value
            THEN Outcome(S, "NotEnoughSent", <<>>, <<>>)
            ELSE
                LET r == transfer_token_from(S, owner, caller, id)
                IN  IF r.res # Ok
                    THEN Outcome(r.st, r.res, r.ev, <<payment>>)
                    ELSE
                        LET index == position(r.st.tokens_for_sale, id)
                        IN  IF index = 0
                            THEN Outcome(r.st, "CannotFetchValue", r.ev,
                                         <<payment>>)
                            ELSE Outcome([r.st EXCEPT
                                             !.tokens_for_sale =
                                                 remove(@, index),
                                             !.prices[id] = None],
                                         Ok, r.ev, <<payment>>)

\* buy_nft whose price check is off by one (>= for >)
buy_nft_rejects_exact_payment(S, caller, id, transferred_value, transfer_ok) ==
    IF ~exists(S, id) THEN Outcome(S, "TokenNotFound", <<>>, <<>>)
    ELSE IF is_owner_of(S, Some(caller), id)
    THEN Outcome(S, "NotApproved", <<>>, <<>>)
    ELSE IF S.prices[id] = None
    THEN Outcome(S, "NotForSale", <<>>, <<>>)
    ELSE
        LET token_price == unwrap(S.prices[id])
            owner == IF owner_of(S, id) = None THEN Null
                     ELSE unwrap(owner_of(S, id))
            payment == [to |-> owner, value |-> token_price]
        IN  IF token_price >= transferred_value
            THEN Outcome(S, "NotEnoughSent", <<>>, <<>>)
            ELSE IF ~transfer_ok
            THEN Outcome(S, "CannotMakeTransfer", <<>>, <<>>)
            ELSE
                LET r == transfer_token_from(S, owner, caller, id)
                IN  IF r.res # Ok
                    THEN Outcome(r.st, r.res, r.ev, <<payment>>)
                    ELSE
                        LET index == position(r.st.tokens_for_sale, id)
                        IN  IF index = 0
                            THEN Outcome(r.st, "CannotFetchValue", r.ev,
                                         <<payment>>)
                            ELSE Outcome([r.st EXCEPT
                                             !.tokens_for_sale =
                                                 remove(@, index),
                                             !.prices[id] = None],
                                         Ok, r.ev, <<payment>>)

\* buy_nft that forwards the price before comparing it with the attached
\* value
buy_nft_pays_first(S, caller, id, transferred_value, transfer_ok) ==
    IF ~exists(S, id) THEN Outcome(S, "TokenNotFound", <<>>, <<>>)
    ELSE IF is_owner_of(S, Some(caller), id)
    THEN Outcome(S, "NotApproved", <<>>, <<>>)
    ELSE IF S.prices[id] = None
    THEN Outcome(S, "NotForSale", <<>>, <<>>)
    ELSE
        LET token_price == unwrap(S.prices[id])
            owner == IF owner_of(S, id) = None THEN Null
                     ELSE unwrap(owner_of(S, id))
            payment == [to |-> owner, value |-> token_price]
        IN  IF ~transfer_ok
            THEN Outcome(S, "CannotMakeTransfer", <<>>, <<>>)
            ELSE IF token_price > transferred_value
            THEN Outcome(S, "NotEnoughSent", <<>>, <<payment>>)
            ELSE
                LET r == transfer_token_from(S, owner, caller, id)
                IN  IF r.res # Ok
                    THEN Outcome(r.st, r.res, r.ev, <<payment>>)
                    ELSE
                        LET index == position(r.st.tokens_for_sale, id)
                        IN  IF index = 0
                            THEN Outcome(r.st, "CannotFetchValue", r.ev,
                                         <<payment>>)
                            ELSE Outcome([r.st EXCEPT
                                             !.tokens_for_sale =
                                                 remove(@, index),
                                             !.prices[id] = None],
                                         Ok, r.ev, <<payment>>)

\* transferred_value is env().transferred_value(); transfer_ok is whether
\* env().transfer(token_owner, token_price) returns Ok.
buy_nft(S, caller, id, transferred_value, transfer_ok) ==
    IF ~exists(S, id) THEN Outcome(S, "TokenNotFound", <<>>, <<>>)
    ELSE IF is_owner_of(S, Some(caller), id)
    THEN Outcome(S, "NotApproved", <<>>, <<>>)
    ELSE IF S.prices[id] = None
    THEN Outcome(S, "NotForSale", <<>>, <<>>)
    ELSE
        LET token_price == unwrap(S.prices[id])
            owner == IF owner_of(S, id) = None THEN Null
                     ELSE unwrap(owner_of(S, id))
            payment == [to |-> owner, value |-> token_price]
        IN  IF token_price > transferred_value
            THEN Outcome(S, "NotEnoughSent", <<>>, <<>>)
            ELSE IF ~transfer_ok
            THEN Outcome(S, "CannotMakeTransfer", <<>>, <<>>)
            ELSE
                LET r == transfer_token_from(S, owner, caller, id)
                IN  IF r.res # Ok
                    THEN Outcome(r.st, r.res, r.ev, <<payment>>)
                    ELSE
                        LET index == position(r.st.tokens_for_sale, id)
                        IN  IF index = 0
                            THEN Outcome(r.st, "CannotFetchValue", r.ev,
                                         <<payment>>)
                            ELSE Outcome([r.st EXCEPT
                                             !.tokens_for_sale =
                                                 remove(@, index),
                                             !.prices[id] = None],
                                         Ok, r.ev, <<payment>>)

get_nft_info(S, id) ==
    IF S.token_data[id] = None THEN [res |-> "TokenNotFound", val |-> None]
    ELSE [res |-> Ok, val |-> S.token_data[id]]

get_all_tokens(S) ==
    [i \in 1..Len(S.all_tokens) |->
        <<S.all_tokens[i], unwrap(S.token_data[S.all_tokens[i]])>>]

\* burn that leaves the owner entry of the burnt token in place
burn_keeps_owner_entry(S, caller, id) ==
    IF S.token_owner[id] = None THEN Outcome(S, "TokenNotFound", <<>>, <<>>)
    ELSE IF unwrap(S.token_owner[id]) # caller
    THEN Outcome(S, "NotOwner", <<>>, <<>>)
    ELSE IF S.owned_tokens_count[caller] = None
    THEN Outcome(S, "CannotFetchValue", <<>>, <<>>)
    ELSE IF dec(S, caller) < 0 THEN Outcome(S, "Underflow", <<>>, <<>>)
    ELSE
        LET count == dec(S, caller)
            S1 == [S EXCEPT !.owned_tokens_count[caller] = Some(count)]
        IN  IF S1.owned_tokens[caller] = None
            THEN Outcome(S1, "CannotFetchValue", <<>>, <<>>)
            ELSE
                LET tokens == unwrap(S1.owned_tokens[caller])
                    index == position(tokens, id)
                IN  IF index = 0
                    THEN Outcome(S1, "CannotFetchValue", <<>>, <<>>)
                    ELSE
                        LET S2 == [S1 EXCEPT !.owned_tokens[caller] =
                                       Some(remove(tokens, index))]
                            index2 == position(S2.all_tokens, id)
                        IN  IF index2 = 0
                            THEN Outcome(S2, "CannotFetchValue", <<>>, <<>>)
                            ELSE Outcome(
                                   [S2 EXCEPT !.all_tokens = remove(@, index2)],
                                   Ok, <<Transfer(caller, Null, id)>>, <<>>)

\* Deletes an existing token. Only the owner can burn the token.
burn(S, caller, id) ==
    IF S.token_owner[id] = None THEN Outcome(S, "TokenNotFound", <<>>, <<>>)
    ELSE IF unwrap(S.token_owner[id]) # caller
    THEN Outcome(S, "NotOwner", <<>>, <<>>)
    ELSE IF S.owned_tokens_count[caller] = None
    THEN Outcome(S, "CannotFetchValue", <<>>, <<>>)
    ELSE IF dec(S, caller) < 0 THEN Outcome(S, "Underflow", <<>>, <<>>)
    ELSE
        LET count == dec(S, caller)
            S1 == [S EXCEPT !.owned_tokens_count[caller] = Some(count)]
        IN  IF S1.owned_tokens[caller] = None
            THEN Outcome(S1, "CannotFetchValue", <<>>, <<>>)
            ELSE
                LET tokens == unwrap(S1.owned_tokens[caller])
                    index == position(tokens, id)
                IN  IF index = 0
                    THEN Outcome(S1, "CannotFetchValue", <<>>, <<>>)
                    ELSE
                        LET S2 == [S1 EXCEPT !.owned_tokens[caller] =
                                       Some(remove(tokens, index))]
                            index2 == position(S2.all_tokens, id)
                        IN  IF index2 = 0
                            THEN Outcome(S2, "CannotFetchValue", <<>>, <<>>)
                            ELSE Outcome(
                                   [S2 EXCEPT
                                       !.all_tokens = remove(@, index2),
                                       !.token_owner[id] = None],
                                   Ok, <<Transfer(caller, Null, id)>>, <<>>)

\* ------------------------------------------------------ the state machine
\* Erc721::new(): every Mapping empty, every Vec empty.
Init ==
    /\ token_owner = [id \in TokenIds |-> None]
    /\ owned_tokens = [a \in Accounts |-> None]
    /\ owned_tokens_count = [a \in Accounts |-> None]
    /\ token_data = [id \in TokenIds |-> None]
    /\ all_tokens = <<>>
    /\ prices = [id \in TokenIds |-> None]
    /\ tokens_for_sale = <<>>
    /\ call = "new"
    /\ result = Ok
    /\ emitted = <<>>
    /\ paid = <<>>
    /\ lister = [id \in TokenIds |-> None]
    /\ published = [id \in TokenIds |-> None]
    /\ minted = [id \in TokenIds |-> None]

\* The storage and the observable outputs after message `name` by `caller`
\* whose outcome is r.
Commit(name, caller, r) ==
    /\ token_owner' = r.st.token_owner
    /\ owned_tokens' = r.st.owned_tokens
    /\ owned_tokens_count' = r.st.owned_tokens_count
    /\ token_data' = r.st.token_data
    /\ all_tokens' = r.st.all_tokens
    /\ prices' = r.st.prices
    /\ tokens_for_sale' = r.st.tokens_for_sale
    /\ call' = name
    /\ result' = r.res
    /\ emitted' = r.ev
    /\ paid' = r.pay
    /\ lister' = [id \in TokenIds |->
                    IF r.st.prices[id] = None THEN None
                    ELSE IF prices[id] = None THEN Some(caller)
                    ELSE lister[id]]

\* The history of the successful calls: message `name` on `id` with argument
\* `arg` (the metadata of mint, the price of publish_for_sale) returned res.
Record(name, id, arg, res) ==
    /\ published' =
           IF res # Ok THEN published
           ELSE IF name = "publish_for_sale"
           THEN [published EXCEPT ![id] = Some(arg)]
           ELSE IF name \in {"remove_from_sale", "buy_nft"}
           THEN [published EXCEPT ![id] = None]
           ELSE published
    /\ minted' =
           IF res = Ok /\ name = "mint"
           THEN [minted EXCEPT ![id] = Some(arg)]
           ELSE minted

Mint ==
    \E caller \in Accounts, id \in TokenIds, data \in NftDatas :
        /\ Len(all_tokens) < MaxAll
        /\ LET r == mint(Self, caller, id, data)
           IN  /\ Commit("mint", caller, r)
               /\ Record("mint", id, data, r.res)

TransferMsg ==
    \E caller \in Accounts, destination \in Accounts, id \in TokenIds :
        LET r == transfer(Self, caller, destination, id)
        IN  /\ Commit("transfer", caller, r)
            /\ Record("transfer", id, 0, r.res)

TransferFrom ==
    \E caller \in Accounts, from \in Accounts, to \in Accounts,
       id \in TokenIds :
        LET r == transfer_from(Self, from, to, id)
        IN  /\ Commit("transfer_from", caller, r)
            /\ Record("transfer_from", id, 0, r.res)

Burn ==
    \E caller \in Accounts, id \in TokenIds :
        LET r == burn(Self, caller, id)
        IN  /\ Commit("burn", caller, r)
            /\ Record("burn", id, 0, r.res)

PublishForSale ==
    \E caller \in Accounts, id \in TokenIds, price \in Prices :
        LET r == publish_for_sale(Self, caller, id, price)
        IN  /\ Commit("publish_for_sale", caller, r)
            /\ Record("publish_for_sale", id, price, r.res)

RemoveFromSale ==
    \E caller \in Accounts, id \in TokenIds :
        LET r == remove_from_sale(Self, caller, id)
        IN  /\ Commit("remove_from_sale", caller, r)
            /\ Record("remove_from_sale", id, 0, r.res)

BuyNft ==
    \E caller \in Accounts, id \in TokenIds, transferred_value \in Values,
       transfer_ok \in BOOLEAN :
        LET r == buy_nft(Self, caller, id, transferred_value, transfer_ok)
        IN  /\ Commit("buy_nft", caller, r)
            /\ Record("buy_nft", id, 0, r.res)

Next ==
    \/ Mint
    \/ TransferMsg
    \/ TransferFrom
    \/ Burn
    \/ PublishForSale
    \/ RemoveFromSale
    \/ BuyNft

Spec == Init /\ [][Next]_vars

\* the u32 decrement of a count is never evaluated on 0
CountNeverUnderflows == result # "Underflow"

\* ======================================================== the properties
NoDuplicates(v) == \A i, j \in 1..Len(v) : v[i] = v[j] => i = j

\* C1 (as claimed): a message that returns an error leaves token_owner,
\* owned_tokens, owned_tokens_count, all_tokens, token_data, prices and
\* tokens_for_sale exactly as they were before the call.
FailedOperationChangesNothing ==
    [][result' # Ok => ledger' = ledger]_vars

\* C2 (as claimed): a TokenId has an entry in token_owner if and only if it
\* occurs exactly once in all_tokens.
OwnerIffOnceInAllTokens ==
    \A id \in TokenIds :
        token_owner[id] # None <=> Occurrences(all_tokens, id) = 1

\* C3: for every account a, owned_tokens_count[a] (0 when absent) is the
\* length of owned_tokens[a] (empty when absent), owned_tokens[a] has no
\* duplicates, and its ids are exactly the ids whose token_owner entry is a.
CountMatchesOwnedTokens ==
    \A a \in Accounts :
        /\ balance_of(Self, a) = Len(tokens_of_owner(Self, a))
        /\ NoDuplicates(tokens_of_owner(Self, a))
        /\ Elems(tokens_of_owner(Self, a)) =
               {id \in TokenIds : token_owner[id] = Some(a)}

\* C3 witness: a token has just changed hands and its new owner now holds
\* two tokens, while the account it left has a count entry of 0.
TransferredIntoTwoTokens ==
    /\ call \in {"transfer", "transfer_from", "buy_nft"}
    /\ result = Ok
    /\ \E a, b \in Accounts :
        /\ Len(tokens_of_owner(Self, a)) = 2
        /\ owned_tokens_count[b] = Some(0)

\* every token with a price entry exists and is owned by the account whose
\* publish_for_sale call created that entry
ListedTokenOwnedByLister ==
    \A id \in TokenIds :
        prices[id] # None =>
            /\ token_owner[id] # None
            /\ token_owner[id] = lister[id]

\* C4 (as claimed): every token that has a price entry exists and is owned
\* by the account whose publish_for_sale call created that entry; so after
\* any successful message (a transfer, transfer_from or burn of a listed
\* token in particular) no price entry of another owner's or of a burned
\* token remains.
NoStaleListingAfterSuccess ==
    [][result' = Ok => ListedTokenOwnedByLister']_vars

\* the ids of tokens_for_sale are the keys of prices, none of them twice
ListingInSync ==
    /\ Elems(tokens_for_sale) = {id \in TokenIds : prices[id] # None}
    /\ NoDuplicates(tokens_for_sale)

\* C5: in every state the ids of tokens_for_sale are exactly the keys of
\* prices and none occurs twice, and no message changes one of the two
\* without changing the other.
ListingAndPricesMoveTogether ==
    /\ []ListingInSync
    /\ [][(tokens_for_sale' # tokens_for_sale) <=> (prices' # prices)]_vars

\* C5 witness: a listing has just been taken down by its owner or by a
\* purchase while another token is still listed.
ListingShrankToOne ==
    /\ call \in {"remove_from_sale", "buy_nft"}
    /\ result = Ok
    /\ Len(tokens_for_sale) = 1

\* C6: the null account is the value of no token_owner entry, has balance 0
\* and an empty owned-token sequence.
NullAccountOwnsNothing ==
    /\ \A id \in TokenIds : token_owner[id] # Some(Null)
    /\ balance_of(Self, Null) = 0
    /\ tokens_of_owner(Self, Null) = <<>>

\* C6 witness: the null account has just been refused as a new owner (a mint
\* by it, or a transfer or purchase towards it).
NullAccountRefused ==
    /\ result = "NotAllowed"
    /\ call \in {"mint", "transfer", "transfer_from", "buy_nft"}

Last(v) == v[Len(v)]

\* C7 (as claimed): for a listed existing token id with price p owned by o,
\* buy_nft(id) by any caller b # o with attached payment >= p whose payment
\* succeeds returns Ok; afterwards owner_of(id) = b, id is in
\* tokens_of_owner(b) and not in tokens_of_owner(o), id has no price entry
\* and is absent from get_tokens_for_sale(), and exactly p went to o.
BuySucceeds(b, id, v) ==
    LET r == buy_nft(Self, b, id, v, TRUE)
        o == unwrap(token_owner[id])
        p == unwrap(prices[id])
        for_sale == get_tokens_for_sale(r.st)
    IN  /\ r.res = Ok
        /\ owner_of(r.st, id) = Some(b)
        /\ id \in Elems(tokens_of_owner(r.st, b))
        /\ id \notin Elems(tokens_of_owner(r.st, o))
        /\ r.st.prices[id] = None
        /\ \A i \in 1..Len(for_sale) : for_sale[i].id # id
        /\ r.pay = <<[to |-> o, value |-> p]>>

Buyable(b, id, v) ==
    /\ token_owner[id] # None
    /\ prices[id] # None
    /\ token_owner[id] # Some(b)
    /\ v >= unwrap(prices[id])

BuySucceedsForAnyCaller ==
    \A b \in Accounts, id \in TokenIds, v \in Values :
        Buyable(b, id, v) => BuySucceeds(b, id, v)

\* C7 (amended): the same, for every caller b # o that is not the null
\* account.
BuySucceedsForNonNullCaller ==
    \A b \in Accounts \ {Null}, id \in TokenIds, v \in Values :
        Buyable(b, id, v) => BuySucceeds(b, id, v)

\* C7 witness: a purchase has just succeeded: the buyer owns the token, the
\* seller received the payment and the token is no longer listed.
BoughtAndPaid ==
    /\ call = "buy_nft"
    /\ result = Ok
    /\ \E id \in TokenIds, b, o \in Accounts, p \in Prices :
        /\ b # o
        /\ emitted = <<Transfer(o, b, id)>>
        /\ paid = <<[to |-> o, value |-> p]>>
        /\ token_owner[id] = Some(b)
        /\ prices[id] = None

\* C8: when the payment primitive fails, buy_nft returns an error (that is
\* CannotMakeTransfer whenever the call got as far as the payment), moves
\* no value, emits nothing and leaves the whole ledger as it was; and no
\* buy_nft step changes a token's owner entry without having paid the
\* listed price to the owner the token had before the call.
FailedPaymentChangesNothing ==
    \A b \in Accounts, id \in TokenIds, v \in Values :
        LET r == buy_nft(Self, b, id, v, FALSE)
        IN  /\ r.res # Ok
            /\ r.st = Self
            /\ r.pay = <<>>
            /\ r.ev = <<>>
            /\ Buyable(b, id, v) => r.res = "CannotMakeTransfer"

NoPurchaseWithoutPayment ==
    /\ []FailedPaymentChangesNothing
    /\ [][call' = "buy_nft" =>
            \A id \in TokenIds :
                token_owner'[id] # token_owner[id] =>
                    /\ token_owner[id] # None
                    /\ prices[id] # None
                    /\ paid' = <<[to |-> unwrap(token_owner[id]),
                                  value |-> unwrap(prices[id])]>>]_vars

\* C8 witness: a purchase that passed every check has just been refused
\* because the payment failed, with the token still listed and owned.
PaymentFailed ==
    /\ call = "buy_nft"
    /\ result = "CannotMakeTransfer"
    /\ paid = <<>>
    /\ \E id \in TokenIds : prices[id] # None /\ token_owner[id] # None

\* C9: buy_nft(id) returns TokenNotFound if id has no owner; else
\* NotApproved if the caller is the owner (listed or not); else NotForSale
\* if id has no price entry; else NotEnoughSent if the attached value is
\* below the price; in each of these cases nothing is paid and the ledger
\* is untouched, and in no other case is one of these four returned.
BuyValidationOrder ==
    \A b \in Accounts, id \in TokenIds, v \in Values, ok \in BOOLEAN :
        LET r == buy_nft(Self, b, id, v, ok)
            expected ==
                IF token_owner[id] = None THEN "TokenNotFound"
                ELSE IF token_owner[id] = Some(b) THEN "NotApproved"
                ELSE IF prices[id] = None THEN "NotForSale"
                ELSE IF v < unwrap(prices[id]) THEN "NotEnoughSent"
                ELSE "passed"
            rejections == {"TokenNotFound", "NotApproved", "NotForSale",
                           "NotEnoughSent"}
        IN  IF expected = "passed" THEN r.res \notin rejections
            ELSE r.res = expected /\ r.pay = <<>> /\ r.st = Self

\* C9 witness: an owner has just been refused the purchase of their own
\* listed token.
OwnerRefusedOwnListing ==
    /\ call = "buy_nft"
    /\ result = "NotApproved"
    /\ paid = <<>>
    /\ \E id \in TokenIds : prices[id] # None /\ token_owner[id] = lister[id]

\* C10: mint(id, m) by c returns TokenExists (and changes nothing) whenever
\* id has an owner; otherwise, for a non-null c, it returns Ok and then
\* owner_of(id) = c, id is the last element of tokens_of_owner(c) and of
\* all_tokens, balance_of(c) has grown by exactly 1 and every other
\* account's tokens and balance are as before.
MintContract ==
    \A c \in Accounts, id \in TokenIds, m \in NftDatas :
        LET r == mint(Self, c, id, m)
        IN  /\ token_owner[id] # None =>
                r.res = "TokenExists" /\ r.st = Self
            /\ (token_owner[id] = None /\ c # Null) =>
                /\ r.res = Ok
                /\ owner_of(r.st, id) = Some(c)
                /\ tokens_of_owner(r.st, c) # <<>>
                /\ Last(tokens_of_owner(r.st, c)) = id
                /\ r.st.all_tokens # <<>>
                /\ Last(r.st.all_tokens) = id
                /\ balance_of(r.st, c) = balance_of(Self, c) + 1
                /\ \A a \in Accounts \ {c} :
                    /\ tokens_of_owner(r.st, a) = tokens_of_owner(Self, a)
                    /\ balance_of(r.st, a) = balance_of(Self, a)

\* C10 witness: a second token has just been minted, by an account other
\* than the owner of the first.
MintedSecondToken ==
    /\ call = "mint"
    /\ result = Ok
    /\ Len(all_tokens) = 2
    /\ \E c, a \in Accounts, id \in TokenIds :
        /\ a # c
        /\ emitted = <<Transfer(Null, c, id)>>
        /\ Last(all_tokens) = id
        /\ Last(tokens_of_owner(Self, c)) = id
        /\ tokens_of_owner(Self, a) # <<>>

\* C11: transfer(to, id) by c returns TokenNotFound if id has no owner and
\* NotApproved if c is not its owner; when c is the owner and to is not the
\* null account it returns Ok and then owner_of(id) = to, balance_of(c) is
\* one less and balance_of(to) one more (both unchanged when to = c), and
\* no other token's owner entry has changed.
TransferContract ==
    \A c \in Accounts, to \in Accounts, id \in TokenIds :
        LET r == transfer(Self, c, to, id)
        IN  /\ token_owner[id] = None => r.res = "TokenNotFound"
            /\ (token_owner[id] # None /\ token_owner[id] # Some(c)) =>
                r.res = "NotApproved"
            /\ (token_owner[id] = Some(c) /\ to # Null) =>
                /\ r.res = Ok
                /\ owner_of(r.st, id) = Some(to)
                /\ to # c =>
                    /\ balance_of(r.st, c) = balance_of(Self, c) - 1
                    /\ balance_of(r.st, to) = balance_of(Self, to) + 1
                /\ to = c => balance_of(r.st, c) = balance_of(Self, c)
                /\ \A other \in TokenIds \ {id} :
                    owner_of(r.st, other) = owner_of(Self, other)

\* C11 witness: an owner has just transferred a token to another account
\* while a second token exists.
TransferredToOther ==
    /\ call = "transfer"
    /\ result = Ok
    /\ \E a, b \in Accounts, id \in TokenIds :
        /\ a # b
        /\ emitted = <<Transfer(a, b, id)>>
        /\ token_owner[id] = Some(b)
        /\ \E other \in TokenIds \ {id} : token_owner[other] # None

\* C12 (as claimed): burn(id) by c returns TokenNotFound if id has no owner
\* and NotOwner if c is not the recorded owner; when c is the owner it
\* returns Ok and then owner_of(id) is absent, id is in neither
\* tokens_of_owner(c) nor all_tokens, balance_of(c) is exactly one less, and
\* id can be minted again by any account (any account that can mint at all,
\* that is, any but the null account).
BurnContract ==
    \A c \in Accounts, id \in TokenIds :
        LET r == burn(Self, c, id)
        IN  /\ token_owner[id] = None => r.res = "TokenNotFound"
            /\ (token_owner[id] # None /\ token_owner[id] # Some(c)) =>
                r.res = "NotOwner"
            /\ token_owner[id] = Some(c) =>
                /\ r.res = Ok
                /\ owner_of(r.st, id) = None
                /\ id \notin Elems(tokens_of_owner(r.st, c))
                /\ id \notin Elems(r.st.all_tokens)
                /\ balance_of(r.st, c) = balance_of(Self, c) - 1
                /\ \A m \in Accounts \ {Null}, data \in NftDatas :
                    mint(r.st, m, id, data).res = Ok

\* C13: publish_for_sale(id, price) by c returns TokenNotFound if id has no
\* owner, otherwise NotApproved if c is not the owner, otherwise
\* AlreadyForSale if id has a price entry; otherwise it returns Ok and
\* get_tokens_for_sale() is what it was with (id, price) appended, so the
\* earlier listings keep their order and prices.  A refused call changes
\* nothing.
PublishContract ==
    \A c \in Accounts, id \in TokenIds, p \in Prices :
        LET r == publish_for_sale(Self, c, id, p)
            expected ==
                IF token_owner[id] = None THEN "TokenNotFound"
                ELSE IF token_owner[id] # Some(c) THEN "NotApproved"
                ELSE IF prices[id] # None THEN "AlreadyForSale"
                ELSE Ok
        IN  /\ r.res = expected
            /\ expected = Ok =>
                get_tokens_for_sale(r.st) =
                    Append(get_tokens_for_sale(Self), ForSale(id, p))
            /\ expected # Ok => r.st = Self

\* C13 witness: a second token has just been put on sale behind a first.
PublishedSecondListing ==
    /\ call = "publish_for_sale"
    /\ result = Ok
    /\ Len(get_tokens_for_sale(Self)) = 2
    /\ get_tokens_for_sale(Self)[2].id = Last(tokens_for_sale)

\* C14: remove_from_sale(id) by c returns TokenNotFound if id has no owner,
\* otherwise NotApproved if c is not the owner, otherwise NotForSale if id
\* has no price entry; otherwise it returns Ok, get_tokens_for_sale() is
\* what it was without the one entry of id (the others in the same order,
\* with the same prices), and the same call repeated at once returns
\* NotForSale.  A refused call changes nothing.
RemoveFromSaleContract ==
    \A c \in Accounts, id \in TokenIds :
        LET r == remove_from_sale(Self, c, id)
            listed == get_tokens_for_sale(Self)
            expected ==
                IF token_owner[id] = None THEN "TokenNotFound"
                ELSE IF token_owner[id] # Some(c) THEN "NotApproved"
                ELSE IF prices[id] = None THEN "NotForSale"
                ELSE Ok
        IN  /\ r.res = expected
            /\ expected = Ok =>
                /\ get_tokens_for_sale(r.st) =
                       SelectSeq(listed, LAMBDA e : e.id # id)
                /\ Len(get_tokens_for_sale(r.st)) = Len(listed) - 1
                /\ remove_from_sale(r.st, c, id).res = "NotForSale"
            /\ expected # Ok => r.st = Self

\* C14 witness: an owner has just taken one of two listings down; the other
\* listing is still there.
RemovedOneOfTwoListings ==
    /\ call = "remove_from_sale"
    /\ result = Ok
    /\ Len(get_tokens_for_sale(Self)) = 1
    /\ \E id \in TokenIds :
        /\ token_owner[id] # None
        /\ prices[id] = None
        /\ get_tokens_for_sale(Self)[1].id # id

\* C15 (as claimed): for every account a, balance_of(a) is the length of
\* tokens_of_owner(a) and is the number of entries of get_all_tokens() whose
\* id is owned by a, repeated entries counted separately.
BalanceMatchesAllTokens ==
    \A a \in Accounts :
        LET all == get_all_tokens(Self)
        IN  /\ balance_of(Self, a) = Len(tokens_of_owner(Self, a))
            /\ balance_of(Self, a) =
                   Cardinality({i \in 1..Len(all) :
                                   owner_of(Self, all[i][1]) = Some(a)})

\* C16: an id appears in get_tokens_for_sale() if and only if some
\* publish_for_sale(id, p) succeeded and no remove_from_sale(id) or
\* buy_nft(id) has succeeded since; it then appears once, with the price p
\* of that latest successful publish.
ListedIffPublished ==
    \A id \in TokenIds :
        LET entries == SelectSeq(get_tokens_for_sale(Self),
                                 LAMBDA e : e.id = id)
        IN  IF published[id] = None THEN entries = <<>>
            ELSE entries = <<ForSale(id, unwrap(published[id]))>>

\* C16 witness: a purchase or a removal has just taken one id off the
\* listing while the other id, published earlier, is still on it.
DelistedOneKeptOther ==
    /\ call \in {"remove_from_sale", "buy_nft"}
    /\ result = Ok
    /\ \E id, other \in TokenIds :
        /\ published[id] = None
        /\ published[other] # None
        /\ get_tokens_for_sale(Self) =
               <<ForSale(other, unwrap(published[other]))>>

\* C17 (as claimed): in any step a token's owner entry changes only from
\* absent to the caller by a successful mint, from one owner to another by
\* a successful transfer, transfer_from or buy_nft, or from its owner to
\* absent by a successful burn by that owner; publish_for_sale,
\* remove_from_sale and every failing call leave every owner entry alone.
OnlyLegalOwnershipTransitions ==
    [][\A id \in TokenIds :
         token_owner'[id] # token_owner[id] =>
            /\ result' = Ok
            /\ \/ /\ token_owner[id] = None
                  /\ call' = "mint"
                  /\ emitted' = <<Transfer(Null, unwrap(token_owner'[id]),
                                           id)>>
               \/ /\ token_owner[id] # None
                  /\ token_owner'[id] # None
                  /\ call' \in {"transfer", "transfer_from", "buy_nft"}
               \/ /\ token_owner[id] # None
                  /\ token_owner'[id] = None
                  /\ call' = "burn"
                  /\ emitted' = <<Transfer(unwrap(token_owner[id]), Null,
                                           id)>>]_vars

OwnershipMessages == {"mint", "transfer", "transfer_from", "burn", "buy_nft"}

\* the events a call emits: `ev` when it returns Ok, none otherwise
EmitsOnSuccess(r, ev) == r.ev = IF r.res = Ok THEN <<ev>> ELSE <<>>

\* C18: a successful mint emits exactly one Transfer (null -> caller), a
\* successful transfer / transfer_from one (source -> destination), a
\* successful burn one (caller -> null), a successful buy_nft one (previous
\* owner -> buyer); a failing call and publish_for_sale / remove_from_sale
\* emit none.  So each message adds 1 to the number of notifications exactly
\* when it is a successful ownership-changing message.
OneEventPerOwnershipChange ==
    /\ Len(emitted) = IF result = Ok /\ call \in OwnershipMessages
                      THEN 1 ELSE 0
    /\ \A c \in Accounts, id \in TokenIds :
        /\ \A m \in NftDatas :
              EmitsOnSuccess(mint(Self, c, id, m), Transfer(Null, c, id))
        /\ \A to \in Accounts :
              /\ EmitsOnSuccess(transfer(Self, c, to, id),
                                Transfer(c, to, id))
              /\ EmitsOnSuccess(transfer_from(Self, c, to, id),
                                Transfer(c, to, id))
        /\ EmitsOnSuccess(burn(Self, c, id), Transfer(c, Null, id))
        /\ \A v \in Values, ok \in BOOLEAN :
              LET r == buy_nft(Self, c, id, v, ok)
              IN  r.ev = IF r.res = Ok
                         THEN <<Transfer(unwrap(token_owner[id]), c, id)>>
                         ELSE <<>>
        /\ \A p \in Prices : publish_for_sale(Self, c, id, p).ev = <<>>
        /\ remove_from_sale(Self, c, id).ev = <<>>

\* C18 witness: a burn has just succeeded and emitted its one notification,
\* from the owner to the null account.
BurnNotified ==
    /\ call = "burn"
    /\ result = Ok
    /\ \E o \in Accounts \ {Null}, id \in TokenIds :
        /\ emitted = <<Transfer(o, Null, id)>>
        /\ token_owner[id] = None

\* C19: for every existing token id, get_nft_info(id) and every entry of id
\* in get_all_tokens() carry the metadata passed to the most recent
\* successful mint of id, whatever transfers, listings, purchases or failed
\* mints came in between; get_nft_info of an id that was never minted
\* returns TokenNotFound.
MetadataIsLatestMint ==
    \A id \in TokenIds :
        LET all == get_all_tokens(Self)
        IN  /\ token_owner[id] # None =>
                /\ minted[id] # None
                /\ get_nft_info(Self, id) =
                       [res |-> Ok, val |-> minted[id]]
                /\ \E i \in 1..Len(all) : all[i][1] = id
                /\ \A i \in 1..Len(all) :
                      all[i][1] = id => all[i][2] = unwrap(minted[id])
            /\ minted[id] = None =>
                get_nft_info(Self, id).res = "TokenNotFound"

\* C19 witness: a token minted with metadata "lol" has just been bought;
\* its new owner reads the same metadata while the other id was never
\* minted.
BoughtTokenKeepsMetadata ==
    /\ call = "buy_nft"
    /\ result = Ok
    /\ \E id, other \in TokenIds, o, b \in Accounts :
        /\ emitted = <<Transfer(o, b, id)>>
        /\ get_nft_info(Self, id) = [res |-> Ok, val |-> Some("lol")]
        /\ minted[other] = None

Without(v, id) == SelectSeq(v, LAMBDA x : x # id)

\* get_all_tokens() lists exactly the existing tokens, each once
AllTokensListsExisting ==
    LET all == get_all_tokens(Self)
    IN  \A id \in TokenIds :
            Cardinality({i \in 1..Len(all) : all[i][1] = id}) =
                IF token_owner[id] # None THEN 1 ELSE 0

\* a successful mint appends the id to all_tokens and to the minter's
\* sequence; a successful transfer, transfer_from or purchase leaves
\* all_tokens as it is, takes the id out of the sequence it leaves and
\* appends it to the one it enters; a successful burn takes the id out of
\* all_tokens and of the owner's sequence; the ids that stay keep their order
SequencesKeepOrder ==
    (result' = Ok /\ call' \in OwnershipMessages) =>
        LET e == emitted'[1]
            after == Self'
        IN  IF call' = "mint"
            THEN /\ all_tokens' = Append(all_tokens, e.id)
                 /\ tokens_of_owner(after, e.to) =
                        Append(tokens_of_owner(Self, e.to), e.id)
            ELSE IF call' = "burn"
            THEN /\ all_tokens' = Without(all_tokens, e.id)
                 /\ tokens_of_owner(after, e.from) =
                        Without(tokens_of_owner(Self, e.from), e.id)
            ELSE /\ all_tokens' = all_tokens
                 /\ tokens_of_owner(after, e.to) =
                        Append(Without(tokens_of_owner(Self, e.to), e.id),
                               e.id)
                 /\ e.from # e.to =>
                        tokens_of_owner(after, e.from) =
                            Without(tokens_of_owner(Self, e.from), e.id)

\* C20 (as claimed): get_all_tokens() lists the existing tokens in the
\* order of their latest mint and tokens_of_owner(a) lists a's tokens in
\* the order a acquired them: a successful transfer or purchase leaves
\* all_tokens unchanged, and a successful burn or transfer removes only the
\* affected id from the sequence it leaves, keeping the order of the rest.
TokensListedInMintOrder ==
    /\ []AllTokensListsExisting
    /\ [][SequencesKeepOrder]_vars

\* C21: the outcome of transfer_from(from, to, id) is a function of the
\* state and its three arguments only (the handler never reads the caller,
\* so any two callers get the same result and the same next state); it is
\* the result, next state and event of transfer(to, id) called by `from`,
\* and it is Ok exactly when `from` is the current owner of id and `to` is
\* not the null account.
TransferFromIgnoresCaller ==
    \A from \in Accounts, to \in Accounts, id \in TokenIds :
        LET r == transfer_from(Self, from, to, id)
        IN  /\ r = transfer(Self, from, to, id)
            /\ r.res = Ok <=> (token_owner[id] = Some(from) /\ to # Null)

\* C21 witness: transfer_from has just moved a token between two different
\* accounts while the previous owner still holds another token.
TransferFromMovedOneOfTwo ==
    /\ call = "transfer_from"
    /\ result = Ok
    /\ \E a, b \in Accounts, id \in TokenIds :
        /\ a # b
        /\ emitted = <<Transfer(a, b, id)>>
        /\ token_owner[id] = Some(b)
        /\ \E other \in TokenIds \ {id} : token_owner[other] = Some(a)

\* C22: CannotFetchValue is unreachable. No message of any reachable
\* behaviour returns it (every call of burn, transfer, transfer_from,
\* remove_from_sale and buy_nft from every reachable state is a step, and
\* `result` is what the step returned); and in every reachable state each
\* token with an owner has that owner's count entry and is in that owner's
\* token sequence and in all_tokens, and each id with a price entry is in
\* tokens_for_sale.
CannotFetchValueUnreachable ==
    /\ result # "CannotFetchValue"
    /\ \A id \in TokenIds :
        /\ token_owner[id] # None =>
            LET o == unwrap(token_owner[id])
            IN  /\ owned_tokens_count[o] # None
                /\ owned_tokens[o] # None
                /\ position(unwrap(owned_tokens[o]), id) # 0
                /\ position(all_tokens, id) # 0
        /\ prices[id] # None => position(tokens_for_sale, id) # 0

\* C22 witness: a burn has just passed all its lookups in storage that an
\* earlier failed transfer left inconsistent: an id other than the burnt
\* one has no owner and is still in all_tokens.
LookupsSurviveStaleEntry ==
    /\ call = "burn"
    /\ result = Ok
    /\ \E a \in Accounts, id \in TokenIds, stale \in TokenIds :
        /\ emitted = <<Transfer(a, Null, id)>>
        /\ stale # id
        /\ token_owner[stale] = None
        /\ position(all_tokens, stale) # 0

\* C23: in every reachable state, whenever buy_nft(id) by a non-null caller
\* forwards the price, the call returns Ok and the caller is the new owner
\* (the ownership transfer and the listing removal after the payment do
\* not fail), and the payment went to the account recorded in
\* token_owner[id], which is not the null account.
PaidBuyerGetsToken ==
    \A b \in Accounts \ {Null}, id \in TokenIds, v \in Values,
       ok \in BOOLEAN :
        LET r == buy_nft(Self, b, id, v, ok)
        IN  r.pay # <<>> =>
                /\ r.res = Ok
                /\ owner_of(r.st, id) = Some(b)
                /\ id \in Elems(tokens_of_owner(r.st, b))
                /\ r.st.prices[id] = None
                /\ token_owner[id] # None
                /\ Len(r.pay) = 1
                /\ r.pay[1].to = unwrap(token_owner[id])
                /\ r.pay[1].to # Null

\* C23 witness: a buyer who already held a token has just paid the owner
\* of a second one and received it.
PaidAndReceivedSecondToken ==
    /\ call = "buy_nft"
    /\ result = Ok
    /\ \E id \in TokenIds, b, o \in Accounts :
        /\ b # o
        /\ paid = <<[to |-> o, value |-> AskPrice]>>
        /\ emitted = <<Transfer(o, b, id)>>
        /\ Len(tokens_of_owner(Self, b)) = 2
        /\ Last(tokens_of_owner(Self, b)) = id

====
